---------------------------- MODULE Spec2Model ----------------------------
(***************************************************************************)
(* Model of the IPO portfolio allocator (src/recommender1.py): the         *)
(* candidate builder, the greedy allocator greedy_fill_full, the MILP      *)
(* allocator allocate_balanced and the selection policy of main.           *)
(*                                                                         *)
(* Money is counted in whole units (one unit = 1000 rupees in the spec's   *)
(* scenarios).  A candidate's density composite / min_invest is compared   *)
(* by cross-multiplication, which orders two quotients of positive         *)
(* numbers exactly as the division does.                                   *)
(***************************************************************************)
EXTENDS Integers, Sequences, FiniteSets, TLC

(***************************************************************************)
(* Program constants.                                                      *)
(***************************************************************************)
DEFAULT_MAX_LOTS_PER_IPO == 3

TOP_FILL_K == 3

\* DIVERSIFICATION_WEIGHT = 0.10, in tenths of a composite point.
DIVERSIFICATION_WEIGHT == 1

(***************************************************************************)
(* Bounds of the model.                                                    *)
(***************************************************************************)
MaxMinInvest == 3

MaxBudget == 8

\* Longest candidate list handed to allocate_balanced and to main.
MaxOptCands == 2

\* Longest candidate list handed to greedy_fill_full: one more than the
\* top-K sweep covers, so that the drain pass has a candidate of its own.
MaxCands == TOP_FILL_K + 1

\* Composite scores of eligible candidates (build_candidates keeps 5..10).
Composites == {5, 10}

\* Composite scores handed to greedy_fill_full directly: with 3 a cheap
\* candidate can be the least dense one, which is what the drain pass buys.
GreedyComposites == {3, 10}

MinInvests == 1..MaxMinInvest

Budgets == 0..MaxBudget

\* Python's None, as allocate_balanced returns it without pulp (line 333).
None == [kind |-> "None"]

(***************************************************************************)
(* Candidates.  "ipo" is the offering identifier; build_candidates yields  *)
(* one candidate per key of a dict, so identifiers are unique: a           *)
(* candidate's identifier is its position in the list as given.            *)
(***************************************************************************)
Cand(i, c, m) == [ipo |-> i, composite |-> c, min_invest |-> m]

CandListsOfLen(k, comps) ==
    { [i \in 1..k |-> Cand(i, f[i][1], f[i][2])] :
        f \in [1..k -> comps \X MinInvests] }

CandLists(n, comps) == UNION { CandListsOfLen(k, comps) : k \in 0..n }

\* The scenarios of spec section 8, and inputs that put the optimizer's
\* leftover at and below 1% of the budget.
ScenarioTwo == << Cand(1, 8, 15), Cand(2, 6, 10) >>

ScenarioOne == << Cand(1, 7, 12) >>

ScenarioPct == << Cand(1, 10, 33), Cand(2, 5, 1) >>

ScenarioPctOver == << Cand(1, 10, 31), Cand(2, 5, 1) >>

ScenarioDrain ==
    << Cand(1, 5, 2), Cand(2, 10, 3), Cand(3, 10, 3), Cand(4, 10, 3) >>

Scenarios ==
    { <<ScenarioTwo, 25>>, <<ScenarioOne, 5>>, <<ScenarioPct, 100>>,
      <<ScenarioPctOver, 100>>, <<ScenarioDrain, 13>> }

(***************************************************************************)
(* Helpers: sums, minimum, Python's stable sorted(..., reverse=True).      *)
(***************************************************************************)
RECURSIVE SumSeq(_)
SumSeq(s) == IF s = <<>> THEN 0 ELSE Head(s) + SumSeq(Tail(s))

MinOf(S) == CHOOSE x \in S : \A y \in S : x <= y

\* key(x) > key(y) for the key composite / min_invest (both positive).
DensityGT(x, y) == x.composite * y.min_invest > y.composite * x.min_invest

CompositeGT(x, y) == x.composite > y.composite

\* sorted(s, key, reverse=True): descending, equal keys in their given order.
SortedDesc(s, GT(_, _)) ==
    LET n == Len(s)
        Rank(i) == Cardinality({ j \in 1..n :
                        GT(s[j], s[i]) \/ (~GT(s[i], s[j]) /\ j < i) }) + 1
    IN  [r \in 1..n |-> s[CHOOSE i \in 1..n : Rank(i) = r]]

\* A sort that puts equal keys in reverse of their given order.
SortedDescUnstable(s, GT(_, _)) ==
    LET n == Len(s)
        Rank(i) == Cardinality({ j \in 1..n :
                        GT(s[j], s[i]) \/ (~GT(s[i], s[j]) /\ j > i) }) + 1
    IN  [r \in 1..n |-> s[CHOOSE i \in 1..n : Rank(i) = r]]

SortByDensityUnstable(cands) == SortedDescUnstable(cands, DensityGT)

\* A sort by density that leaves out reverse=True.
DensityLT(x, y) == DensityGT(y, x)

SortByDensityAscending(cands) == SortedDesc(cands, DensityLT)

\* The candidates as given, without the sort.
SortByDensityOmitted(cands) == cands

\* line 285
SortByDensity(cands) == SortedDesc(cands, DensityGT)

\* line 325
SortByComposite(alloc) == SortedDesc(alloc, CompositeGT)

(***************************************************************************)
(* greedy_fill_full (lines 284-326).  A frame holds the function's locals  *)
(* and its position: "seed" (for loop, 290-293), "topk_while" (head of     *)
(* the while loop, 297), "topk_for" (its inner for loop, 299-310),         *)
(* "drain" (312-323), "done" (returned) and "raised" (min() of an empty    *)
(* sequence raised ValueError at line 288).                                *)
(***************************************************************************)
Line(c) ==
    [ipo |-> c.ipo, lots |-> 1, min_invest |-> c.min_invest,
     invested |-> c.min_invest, composite |-> c.composite]

\* lines 301-306 and 317-322: one more lot of c, merged into its line if any.
AddLot(allocation, c) ==
    IF \E k \in 1..Len(allocation) : allocation[k].ipo = c.ipo
    THEN LET k == CHOOSE k \in 1..Len(allocation) :
                    /\ allocation[k].ipo = c.ipo
                    /\ \A h \in 1..(k - 1) : allocation[h].ipo # c.ipo
         IN  [allocation EXCEPT ![k].lots = @ + 1,
                                ![k].invested = @ + c.min_invest]
    ELSE Append(allocation, Line(c))

\* A seed pass that hands out a lot without looking at what remains.
SeedAffordableAlways(remaining, c) == TRUE

\* line 291
SeedAffordable(remaining, c) == remaining >= c.min_invest

\* line 288
MinUnit(cands) == MinOf({ cands[i].min_invest : i \in 1..Len(cands) })

\* line 295
TopK(cands) == SubSeq(cands, 1, IF TOP_FILL_K < Len(cands) THEN TOP_FILL_K
                                                           ELSE Len(cands))

\* lines 285-288
GreedyEnter(cands, budget) ==
    IF Len(cands) = 0
    THEN [pc |-> "raised", candidates |-> <<>>, allocation |-> <<>>,
          remaining |-> budget, min_unit |-> 0, i |-> 1, added |-> FALSE]
    ELSE [pc |-> "seed", candidates |-> SortByDensity(cands),
          allocation |-> <<>>, remaining |-> budget,
          min_unit |-> MinUnit(cands), i |-> 1, added |-> FALSE]

\* lines 290-296: one iteration of the seed loop; after the last one,
\* top_k is taken and added is set.
SeedIter(g) ==
    LET c    == g.candidates[g.i]
        take == SeedAffordable(g.remaining, c)
        last == g.i = Len(g.candidates)
    IN  [g EXCEPT !.allocation = IF take THEN Append(@, Line(c)) ELSE @,
                  !.remaining  = IF take THEN @ - c.min_invest ELSE @,
                  !.i          = IF last THEN 1 ELSE @ + 1,
                  !.added      = last,
                  !.pc         = IF last THEN "topk_while" ELSE "seed"]

\* line 297: the while condition.
TopKContinues(g) == g.added /\ g.remaining >= g.min_unit

\* lines 297-298 (condition true) or 297 (condition false, on to line 312).
TopKHead(g) ==
    IF TopKContinues(g)
    THEN [g EXCEPT !.added = FALSE, !.i = 1, !.pc = "topk_for"]
    ELSE [g EXCEPT !.i = 1, !.pc = "drain"]

\* A sweep that tests what remains against min_unit, not the candidate.
TopKAffordableMinUnit(g, c) == g.remaining >= g.min_unit

\* line 300
TopKAffordable(g, c) == g.remaining >= c.min_invest

\* lines 299-310: one iteration of the sweep over top_k.
TopKIter(g) ==
    LET top_k == TopK(g.candidates)
        c     == top_k[g.i]
        take  == TopKAffordable(g, c)
        rem   == IF take THEN g.remaining - c.min_invest ELSE g.remaining
        exit  == rem < g.min_unit \/ g.i = Len(top_k)
    IN  [g EXCEPT !.allocation = IF take THEN AddLot(@, c) ELSE @,
                  !.remaining  = rem,
                  !.added      = IF take THEN TRUE ELSE @,
                  !.i          = IF exit THEN 1 ELSE @ + 1,
                  !.pc         = IF exit THEN "topk_while" ELSE "topk_for"]

\* A drain pass that looks for an affordable candidate in top_k only.
AffordableInTopK(g) ==
    { k \in 1..Len(TopK(g.candidates)) :
        g.candidates[k].min_invest <= g.remaining }

\* line 313
Affordable(g) ==
    { k \in 1..Len(g.candidates) : g.candidates[k].min_invest <= g.remaining }

\* line 316: max() returns the first of the elements with the greatest key.
Pick(g) ==
    LET A == Affordable(g)
        k == CHOOSE k \in A :
                /\ \A h \in A : ~DensityGT(g.candidates[h], g.candidates[k])
                /\ \A h \in A : h < k =>
                       DensityGT(g.candidates[k], g.candidates[h])
    IN  g.candidates[k]

\* lines 312-315: the drain loop goes on.
DrainContinues(g) == g.remaining >= g.min_unit /\ Affordable(g) # {}

\* lines 316-323
DrainIter(g) ==
    LET pick == Pick(g)
    IN  [g EXCEPT !.allocation = AddLot(@, pick),
                  !.remaining  = @ - pick.min_invest]

\* lines 325-326
GreedyReturn(g) ==
    [g EXCEPT !.allocation = SortByComposite(@), !.pc = "done"]

GreedyStep(g) ==
    CASE g.pc = "seed"       -> SeedIter(g)
      [] g.pc = "topk_while" -> TopKHead(g)
      [] g.pc = "topk_for"   -> TopKIter(g)
      [] g.pc = "drain"      -> IF DrainContinues(g) THEN DrainIter(g)
                                                     ELSE GreedyReturn(g)
      [] OTHER               -> g

RECURSIVE GreedyRun(_)
GreedyRun(g) == IF g.pc \in {"done", "raised"} THEN g
                                               ELSE GreedyRun(GreedyStep(g))

\* greedy_fill_full(candidates, budget): the frame at its return or raise.
GreedyFill(cands, budget) == GreedyRun(GreedyEnter(cands, budget))

\* The frame before greedy_fill_full is entered.
NoFrame ==
    [pc |-> "none", candidates |-> <<>>, allocation |-> <<>>,
     remaining |-> 0, min_unit |-> 0, i |-> 1, added |-> FALSE]

(***************************************************************************)
(* allocate_balanced (lines 329-369).  The MILP solver is outside the      *)
(* repository: solve() leaves in the variables an optimal point of the     *)
(* program, or, when the 10 s time limit cuts it short, whatever feasible  *)
(* point it holds (all zero when it holds none).                           *)
(***************************************************************************)
\* lines 339-340
Cap(c, budget) ==
    LET floor        == budget \div c.min_invest
        max_possible == IF floor > 1 THEN floor ELSE 1
    IN  IF DEFAULT_MAX_LOTS_PER_IPO < max_possible
        THEN DEFAULT_MAX_LOTS_PER_IPO ELSE max_possible

Cost(cands, v) == SumSeq([i \in 1..Len(cands) |-> cands[i].min_invest * v[i]])

\* A program without the budget constraint of line 355.
WithinBudgetDropped(cands, v, budget) == TRUE

\* line 355
WithinBudget(cands, v, budget) == Cost(cands, v) <= budget

\* lines 337-341 and 355: the integer points of the program.
Feasible(cands, budget) ==
    { v \in [1..Len(cands) -> 0..DEFAULT_MAX_LOTS_PER_IPO] :
        /\ \A i \in 1..Len(cands) : v[i] <= Cap(cands[i], budget)
        /\ WithinBudget(cands, v, budget) }

\* lines 346-352, in tenths: sum (composite - 0.10) * lots.
Objective(cands, v) ==
    SumSeq([i \in 1..Len(cands) |->
              (10 * cands[i].composite - DIVERSIFICATION_WEIGHT) * v[i]])

Optimal(cands, budget) ==
    { v \in Feasible(cands, budget) :
        \A w \in Feasible(cands, budget) :
            Objective(cands, w) <= Objective(cands, v) }

\* line 358
Solve(cands, budget) == Optimal(cands, budget) \cup Feasible(cands, budget)

\* lines 360-369
BalancedReturn(cands, v, budget) ==
    LET all == [i \in 1..Len(cands) |->
                  [ipo |-> cands[i].ipo, lots |-> v[i],
                   min_invest |-> cands[i].min_invest,
                   invested |-> v[i] * cands[i].min_invest,
                   composite |-> cands[i].composite]]
        Positive(l) == l.lots > 0
        allocation == SelectSeq(all, Positive)
        total_invested ==
            SumSeq([k \in 1..Len(allocation) |-> allocation[k].invested])
    IN  [kind |-> "result", allocation |-> allocation,
         remaining |-> budget - total_invested]

\* allocate_balanced(candidates, budget): what it can return.
AllocateBalanced(cands, budget, pulp) ==
    IF ~pulp THEN {None}
    ELSE { BalancedReturn(cands, v, budget) : v \in Solve(cands, budget) }

(***************************************************************************)
(* main, lines 472-480: the selection policy.                              *)
(***************************************************************************)
\* A threshold of 10% of the budget.
UnderUtilizedTenPct(rem, budget) == 10 * rem > budget

\* line 477: remaining > 0.01 * budget.
UnderUtilized(rem, budget) == 100 * rem > budget

\* line 479
GreedyBetter(g_rem, rem, budget) == (budget - g_rem) > (budget - rem)

\* The pair a greedy_fill_full frame returns (line 326).
Result(frame) ==
    [kind |-> "result", allocation |-> frame.allocation,
     remaining |-> frame.remaining]

(***************************************************************************)
(* Offering and analysis documents, as far as build_candidates and the     *)
(* scoring read them.  A text field is held as what the regular            *)
(* expressions of the code find in it; 0 stands for None where the code    *)
(* only tests the value's truth ("if not x"), since None and 0 are both    *)
(* false.  Prices are whole rupees, chosen so that a mean is whole.        *)
(***************************************************************************)
MIN_INVEST_MAINBOARD == 15000

\* Weights of the composite (lines 211-215), in hundredths.
W_BASE == 30

W_RQ == 25

W_FUND == 20

W_GMP == 15

W_SENT == 10

\* Latest day a close date or the hold date falls on; day 0 is "no date".
MaxDate == 2

\* issue_price / Price Band: absent; a dict <<avg, mid, min>>; or the
\* numeric tokens of a text or scalar.
IssuePrices ==
    { [kind |-> "absent", nums |-> <<>>],
      [kind |-> "text", nums |-> <<0>>],
      [kind |-> "text", nums |-> <<100, 120>>],
      [kind |-> "dict", nums |-> <<0, 0, 100>>],
      [kind |-> "dict", nums |-> <<0, 0, 0>>] }

\* "Market Lot & Amounts": absent or unmatched; "<lot> shares ... Rs
\* <amount>" (first pattern); "Rs <amount>" alone (second pattern).
MarketLots ==
    { [kind |-> "absent", lot |-> 0, amount |-> 0],
      [kind |-> "shares", lot |-> 10, amount |-> 1500],
      [kind |-> "shares", lot |-> 10, amount |-> 0],
      [kind |-> "rupees", lot |-> 0, amount |-> 0],
      [kind |-> "rupees", lot |-> 0, amount |-> 2000] }

\* gmp_investorgain: absent (0), a discount, a large premium.
Gmps == {0, -60, 600}

\* The three scoring texts of a document: the retail quota the pattern
\* "Retail: n%" finds, what the fundamentals text holds, and how many of
\* the 7 good and 6 bad words the overview holds.
ScoringTexts ==
    { [quota    |-> [matched |-> FALSE, pct |-> 0],
       fund     |-> [present |-> FALSE, pos |-> FALSE, neg |-> FALSE,
                     roe_gt10 |-> FALSE, de_gt1 |-> FALSE, eps |-> "none"],
       overview |-> [present |-> FALSE, good |-> 0, bad |-> 0]],
      [quota    |-> [matched |-> TRUE, pct |-> 0],
       fund     |-> [present |-> TRUE, pos |-> FALSE, neg |-> TRUE,
                     roe_gt10 |-> FALSE, de_gt1 |-> TRUE, eps |-> "nonpos"],
       overview |-> [present |-> TRUE, good |-> 0, bad |-> 6]],
      [quota    |-> [matched |-> TRUE, pct |-> 35],
       fund     |-> [present |-> TRUE, pos |-> TRUE, neg |-> FALSE,
                     roe_gt10 |-> TRUE, de_gt1 |-> FALSE, eps |-> "pos"],
       overview |-> [present |-> TRUE, good |-> 7, bad |-> 0]] }

IpoDocs ==
    { [close |-> d, issue_price |-> ip, market_lot |-> ml, gmp |-> gm,
       quota |-> st.quota, fund |-> st.fund, overview |-> st.overview] :
        d \in 0..MaxDate, ip \in IssuePrices, ml \in MarketLots,
        gm \in Gmps, st \in ScoringTexts }

\* scored.get(name): no record; or a record with its status and score.
Analyses ==
    { [present |-> FALSE, status |-> "none", has_score |-> FALSE, score |-> 0],
      [present |-> TRUE, status |-> "pending", has_score |-> FALSE, score |-> 0],
      [present |-> TRUE, status |-> "pending", has_score |-> TRUE, score |-> 2],
      [present |-> TRUE, status |-> "scored", has_score |-> FALSE, score |-> 0],
      [present |-> TRUE, status |-> "scored", has_score |-> TRUE, score |-> 10] }

\* lines 125-134: the mid price, 0 for None.
ParseIssueMid(ip) ==
    CASE ip.kind = "dict" ->
            IF ip.nums[1] # 0 THEN ip.nums[1]
            ELSE IF ip.nums[2] # 0 THEN ip.nums[2] ELSE ip.nums[3]
      [] ip.kind = "text" ->
            IF Len(ip.nums) = 0 THEN 0 ELSE SumSeq(ip.nums) \div Len(ip.nums)
      [] OTHER -> 0

\* lines 111-123: (lot, min_inv), 0 for None.
ParseLotAndMinInvest(ml) ==
    CASE ml.kind = "shares" -> [lot |-> ml.lot, min_inv |-> ml.amount]
      [] ml.kind = "rupees" -> [lot |-> 0, min_inv |-> ml.amount]
      [] OTHER -> [lot |-> 0, min_inv |-> 0]

\* A minimum investment taken from the text as it is, without fallback.
MinInvestNoFallback(ml, issue_mid) == ParseLotAndMinInvest(ml).min_inv

\* lines 261-263
MinInvest(ml, issue_mid) ==
    LET p == ParseLotAndMinInvest(ml)
    IN  IF p.min_inv = 0
        THEN IF p.lot # 0 THEN p.lot * issue_mid ELSE MIN_INVEST_MAINBOARD
        ELSE p.min_inv

Clamp(x, lo, hi) == IF x < lo THEN lo ELSE IF x > hi THEN hi ELSE x

\* lines 149-155: the retail quota in percent.
ExtractRetailQuota(q) == IF q.matched THEN q.pct ELSE 10

\* lines 157-183, in thousandths of a point.
ExtractFundamentalScore(f) ==
    IF ~f.present THEN 5000
    ELSE Clamp(5000 + (IF f.pos THEN 2000 ELSE 0)
                    - (IF f.neg THEN 2000 ELSE 0)
                    + (IF f.roe_gt10 THEN 1500 ELSE 0)
                    - (IF f.de_gt1 THEN 1000 ELSE 0)
                    + (CASE f.eps = "pos" -> 1000
                         [] f.eps = "nonpos" -> -1000
                         [] OTHER -> 0),
               1000, 10000)

\* lines 185-198, in thousandths of a point.
ExtractSentiment(o) ==
    IF ~o.present THEN 5000
    ELSE Clamp(5000 + 500 * o.good - 500 * o.bad, 1000, 10000)

\* round(n / d) for d > 0, halves to the even neighbour (Python's round).
RoundHalfEven(n, d) ==
    LET q == n \div d
        r == n - q * d
    IN  IF 2 * r > d THEN q + 1
        ELSE IF 2 * r < d THEN q
        ELSE IF q % 2 = 0 THEN q ELSE q + 1

\* lines 202-217: the weighted sum as a fraction num / den of thousandths.
\* gmp_strength / 10 is 10 * gmp / issue points, 10000 * gmp / issue
\* thousandths.
CompositeFraction(doc, analysis) ==
    LET base  == 1000 * (IF analysis.has_score THEN analysis.score ELSE 5)
        retail == ExtractRetailQuota(doc.quota)
        rq    == 1000 * (IF retail < 10 THEN retail ELSE 10)
        fund  == ExtractFundamentalScore(doc.fund)
        sent  == ExtractSentiment(doc.overview)
        issue == ParseIssueMid(doc.issue_price)
        fixed == W_BASE * base + W_RQ * rq + W_FUND * fund + W_SENT * sent
    IN  IF doc.gmp # 0 /\ issue # 0
        THEN [num |-> fixed * issue + W_GMP * 10000 * doc.gmp,
              den |-> 100 * issue]
        ELSE [num |-> fixed, den |-> 100]

\* lines 200-218: composite = round(min(composite, 10), 3), in thousandths.
ComputeComposite(doc, analysis) ==
    LET x == CompositeFraction(doc, analysis)
    IN  IF x.num > 10000 * x.den THEN 10000 ELSE RoundHalfEven(x.num, x.den)

\* A date test that only asks for a date.
DateRejectedNoHorizon(close_date, hold) == close_date = 0

\* line 254
DateRejected(close_date, hold) == close_date = 0 \/ close_date > hold

\* lines 269-280
Candidate(name, doc, analysis) ==
    LET issue_mid == ParseIssueMid(doc.issue_price)
    IN  [ipo        |-> name,
         composite  |-> ComputeComposite(doc, analysis),
         issue_mid  |-> issue_mid,
         lot        |-> ParseLotAndMinInvest(doc.market_lot).lot,
         min_invest |-> MinInvest(doc.market_lot, issue_mid),
         close_date |-> doc.close,
         gmp_investorgain |-> doc.gmp,
         analysis   |-> analysis]

(***************************************************************************)
(* State of the allocation engine.                                         *)
(*   entry      the operation called: "greedy_fill_full",                  *)
(*              "allocate_balanced" or "main" (the allocation of main)     *)
(*   candidates, budget   its arguments                                    *)
(*   has_pulp   whether "import pulp" succeeds (line 331)                  *)
(*   pc         position of the caller                                     *)
(*   g          frame of the greedy_fill_full call in progress             *)
(*   opt        what allocate_balanced returned (main: line 472)           *)
(*   g_res      main's (g_alloc, g_rem) of lines 475 / 478                 *)
(*   final      main's (allocation, remaining) at line 481                 *)
(*   earlier    an earlier call of greedy_fill_full on the same candidates: *)
(*              its budget and what it returned                            *)
(***************************************************************************)
VARIABLES entry, candidates, budget, has_pulp, pc, g, opt, g_res, final,
          earlier

(***************************************************************************)
(* State of build_candidates (lines 243-281).                              *)
(*   ipos_by_name, scored   the two dicts, keyed by the offering's name;   *)
(*              a name is the key's position in ipos_by_name               *)
(*   hold_date  the hold-until day                                         *)
(*   cands      the list being built                                       *)
(*   b_pc       "idle", "loop" (line 245) or "returned" (line 281)         *)
(*   b_i        position of the loop in ipos_by_name.items()               *)
(***************************************************************************)
VARIABLES ipos_by_name, scored, hold_date, cands, b_pc, b_i

buildVars == <<ipos_by_name, scored, hold_date, cands, b_pc, b_i>>

(***************************************************************************)
(* State of explain_allocation (lines 372-393).                            *)
(*   allocation       the allocation lines it is given                     *)
(*   candidates_dict  the candidates by name (main, line 553)              *)
(*   explain          the dict being built, a function on names            *)
(*   e_pc             "idle", "loop" (line 374) or "returned" (line 393)   *)
(*   e_i              position of the loop in allocation                   *)
(***************************************************************************)
VARIABLES allocation, candidates_dict, explain, e_pc, e_i

explainVars == <<allocation, candidates_dict, explain, e_pc, e_i>>

allocVars ==
    <<entry, candidates, budget, has_pulp, pc, g, opt, g_res, final, earlier>>

vars == <<allocVars, buildVars, explainVars>>

\* explain_allocation has not been called.
ExplainIdle ==
    /\ allocation = <<>>
    /\ candidates_dict = <<>>
    /\ explain = <<>>
    /\ e_pc = "idle"
    /\ e_i = 1

\* build_candidates has not been called.
BuildIdle ==
    /\ ipos_by_name = <<>>
    /\ scored = <<>>
    /\ hold_date = 0
    /\ cands = <<>>
    /\ b_pc = "idle"
    /\ b_i = 1

NotCalled == [kind |-> "NotCalled"]

GreedyInputs ==
    (CandLists(MaxCands, GreedyComposites) \X Budgets) \cup Scenarios

OptInputs == (CandLists(MaxOptCands, Composites) \X Budgets) \cup Scenarios

Init ==
    /\ entry \in {"greedy_fill_full", "allocate_balanced", "main"}
    /\ \E in \in (IF entry = "greedy_fill_full" THEN GreedyInputs
                                                ELSE OptInputs) :
          /\ candidates = in[1]
          /\ budget = in[2]
    \* the sidebar's number_input keeps main's budget positive (line 416)
    /\ entry = "main" => budget > 0
    /\ has_pulp \in (IF entry = "greedy_fill_full" THEN {FALSE} ELSE BOOLEAN)
    /\ pc = "idle"
    /\ g = NoFrame
    /\ opt = NotCalled
    /\ g_res = NotCalled
    /\ final = NotCalled
    /\ earlier = NotCalled
    /\ BuildIdle
    /\ ExplainIdle

\* A direct call of greedy_fill_full: lines 285-288.
CallGreedy ==
    /\ pc = "idle" /\ entry = "greedy_fill_full"
    /\ g' = GreedyEnter(candidates, budget)
    /\ pc' = "greedy"
    /\ UNCHANGED <<explainVars, buildVars, earlier, entry, candidates, budget,
                   has_pulp, opt, g_res, final>>

\* lines 290-296
SeedStep ==
    /\ pc = "greedy" /\ g.pc = "seed"
    /\ g' = SeedIter(g)
    /\ UNCHANGED <<explainVars, buildVars, earlier, entry, candidates, budget,
                   has_pulp, pc, opt, g_res, final>>

\* line 297, condition true: a sweep over top_k starts.
TopKSweep ==
    /\ pc = "greedy" /\ g.pc = "topk_while" /\ TopKContinues(g)
    /\ g' = TopKHead(g)
    /\ UNCHANGED <<explainVars, buildVars, earlier, entry, candidates, budget,
                   has_pulp, pc, opt, g_res, final>>

\* line 297, condition false: on to the drain loop.
TopKExit ==
    /\ pc = "greedy" /\ g.pc = "topk_while" /\ ~TopKContinues(g)
    /\ g' = TopKHead(g)
    /\ UNCHANGED <<explainVars, buildVars, earlier, entry, candidates, budget,
                   has_pulp, pc, opt, g_res, final>>

\* lines 299-310
TopKStep ==
    /\ pc = "greedy" /\ g.pc = "topk_for"
    /\ g' = TopKIter(g)
    /\ UNCHANGED <<explainVars, buildVars, earlier, entry, candidates, budget,
                   has_pulp, pc, opt, g_res, final>>

\* lines 312-323
DrainStep ==
    /\ pc = "greedy" /\ g.pc = "drain" /\ DrainContinues(g)
    /\ g' = DrainIter(g)
    /\ UNCHANGED <<explainVars, buildVars, earlier, entry, candidates, budget,
                   has_pulp, pc, opt, g_res, final>>

\* lines 312/315 (loop left), 325-326
GreedyDone ==
    /\ pc = "greedy" /\ g.pc = "drain" /\ ~DrainContinues(g)
    /\ g' = GreedyReturn(g)
    /\ UNCHANGED <<explainVars, buildVars, earlier, entry, candidates, budget,
                   has_pulp, pc, opt, g_res, final>>

\* A direct call of allocate_balanced: lines 329-369.
CallBalanced ==
    /\ pc = "idle" /\ entry = "allocate_balanced"
    /\ opt' \in AllocateBalanced(candidates, budget, has_pulp)
    /\ pc' = "returned"
    /\ UNCHANGED <<explainVars, buildVars, earlier, entry, candidates, budget,
                   has_pulp, g, g_res, final>>

\* main, lines 452-454: no eligible candidates, nothing is allocated.
MainNoCandidates ==
    /\ pc = "idle" /\ entry = "main" /\ Len(candidates) = 0
    /\ pc' = "main_454"
    /\ UNCHANGED <<explainVars, buildVars, earlier, entry, candidates, budget,
                   has_pulp, g, opt, g_res, final>>

\* main, line 472; main may also be run on the inputs of a direct call of
\* greedy_fill_full that has returned (the same candidates and budget again).
MainAllocate ==
    /\ \/ pc = "idle" /\ entry = "main"
       \/ pc = "greedy" /\ g.pc = "done" /\ budget > 0
    /\ Len(candidates) > 0
    /\ opt' \in AllocateBalanced(candidates, budget, has_pulp)
    /\ pc' = "main_473"
    /\ UNCHANGED <<explainVars, buildVars, earlier, entry, candidates, budget,
                   has_pulp, g, g_res, final>>

\* main, lines 473-475: no optimizer, the greedy result is the result.
MainFallback ==
    /\ pc = "main_473" /\ opt = None
    /\ g_res' = Result(GreedyFill(candidates, budget))
    /\ final' = g_res'
    /\ pc' = "main_481"
    /\ UNCHANGED <<explainVars, buildVars, earlier, entry, candidates, budget,
                   has_pulp, g, opt>>

\* main, lines 476-477, condition false: the optimizer's result is kept.
MainKeep ==
    /\ pc = "main_473" /\ opt # None
    /\ ~UnderUtilized(opt.remaining, budget)
    /\ final' = opt
    /\ pc' = "main_481"
    /\ UNCHANGED <<explainVars, buildVars, earlier, entry, candidates, budget,
                   has_pulp, g, opt, g_res>>

\* main, lines 476-480: under-utilization, greedy runs and the fuller wins.
MainCompare ==
    /\ pc = "main_473" /\ opt # None
    /\ UnderUtilized(opt.remaining, budget)
    /\ g_res' = Result(GreedyFill(candidates, budget))
    /\ final' = IF GreedyBetter(g_res'.remaining, opt.remaining, budget)
                THEN g_res' ELSE opt
    /\ pc' = "main_481"
    /\ UNCHANGED <<explainVars, buildVars, earlier, entry, candidates, budget,
                   has_pulp, g, opt>>

Next ==
    \/ CallGreedy
    \/ SeedStep
    \/ TopKSweep
    \/ TopKExit
    \/ TopKStep
    \/ DrainStep
    \/ GreedyDone
    \/ CallBalanced
    \/ MainNoCandidates
    \/ MainAllocate
    \/ MainFallback
    \/ MainKeep
    \/ MainCompare

Spec == Init /\ [][Next]_vars

(***************************************************************************)
(* Properties of the allocation engine.                                    *)
(***************************************************************************)
SumInvested(alloc) == SumSeq([k \in 1..Len(alloc) |-> alloc[k].invested])

GreedyRunning == g.pc \in {"seed", "topk_while", "topk_for", "drain", "done"}

IsResult(r) == r.kind = "result"

\* Each line is lots x min_invest, the lines sum to at most the budget, and
\* what remains is the budget less that sum, and not negative.
Accounted(alloc, rem) ==
    /\ \A k \in 1..Len(alloc) :
          alloc[k].invested = alloc[k].lots * alloc[k].min_invest
    /\ SumInvested(alloc) <= budget
    /\ rem = budget - SumInvested(alloc)
    /\ rem >= 0

\* C1: at every step of greedy_fill_full and in its result, and in the
\* result of allocate_balanced, every line has invested = lots x min_invest,
\* the lines sum to at most the budget, and remaining = budget - sum >= 0.
C1_BudgetAccounting ==
    /\ GreedyRunning => Accounted(g.allocation, g.remaining)
    /\ IsResult(opt) => Accounted(opt.allocation, opt.remaining)

\* greedy_fill_full returned several lines, one of them merged from several
\* lots, with money left over.
C1_Witness ==
    /\ g.pc = "done"
    /\ Len(g.allocation) >= 2
    /\ \E k \in 1..Len(g.allocation) : g.allocation[k].lots >= 2
    /\ g.remaining > 0

\* C2 (as claimed): with an empty candidate list neither strategy raises,
\* and each returns an empty allocation with leftover = budget.
C2_EmptyListReturnsEmpty ==
    Len(candidates) = 0 =>
        /\ g.pc # "raised"
        /\ g.pc = "done" => g.allocation = <<>> /\ g.remaining = budget
        /\ (entry = "allocate_balanced" /\ pc = "returned" /\ has_pulp) =>
              /\ IsResult(opt)
              /\ opt.allocation = <<>>
              /\ opt.remaining = budget

\* min(DEFAULT_MAX_LOTS_PER_IPO, floor(budget / min_invest))
LotCap(line) ==
    LET floor == budget \div line.min_invest
    IN  IF DEFAULT_MAX_LOTS_PER_IPO < floor THEN DEFAULT_MAX_LOTS_PER_IPO
                                             ELSE floor

\* C3 (as claimed): every line of the result the policy keeps has at most
\* DEFAULT_MAX_LOTS_PER_IPO lots, and every line of the optimizer's result
\* at most min(DEFAULT_MAX_LOTS_PER_IPO, floor(budget / min_invest)).
C3_LotCapInFinalResult ==
    /\ pc = "main_481" =>
          \A k \in 1..Len(final.allocation) :
              final.allocation[k].lots <= DEFAULT_MAX_LOTS_PER_IPO
    /\ IsResult(opt) =>
          \A k \in 1..Len(opt.allocation) :
              opt.allocation[k].lots <= LotCap(opt.allocation[k])

\* The optimizer's half of C3, which holds: its lines respect the cap.
C3_OptimizerLotCap ==
    IsResult(opt) =>
        \A k \in 1..Len(opt.allocation) :
            opt.allocation[k].lots <= LotCap(opt.allocation[k])

Unaffordable == { i \in 1..Len(candidates) : candidates[i].min_invest > budget }

NoLineOfUnaffordable(alloc) ==
    \A k \in 1..Len(alloc) : alloc[k].ipo \notin Unaffordable

\* C5: a candidate with min_invest > budget has no line at any step or in
\* any result of either strategy or of the policy; when no candidate is
\* affordable the result is the empty allocation with leftover = budget.
C5_UnaffordableExcluded ==
    /\ GreedyRunning => NoLineOfUnaffordable(g.allocation)
    /\ IsResult(opt) => NoLineOfUnaffordable(opt.allocation)
    /\ IsResult(final) => NoLineOfUnaffordable(final.allocation)
    /\ (Len(candidates) > 0 /\ Unaffordable = 1..Len(candidates)) =>
          /\ g.pc = "done" => g.allocation = <<>> /\ g.remaining = budget
          /\ IsResult(opt) => opt.allocation = <<>> /\ opt.remaining = budget
          /\ IsResult(final) =>
                final.allocation = <<>> /\ final.remaining = budget

\* The optimizer returned lines for a list that holds both an affordable
\* and an unaffordable candidate.
C5_Witness ==
    /\ IsResult(opt)
    /\ Unaffordable # {}
    /\ Unaffordable # 1..Len(candidates)
    /\ Len(opt.allocation) >= 1

Invested(r) == budget - r.remaining

MaxOfTwo(a, b) == IF a > b THEN a ELSE b

\* C6: when the optimizer produced a result, the final result is the
\* optimizer's or greedy's, whole; it is greedy's exactly when the
\* optimizer's leftover is over 1% of the budget and greedy invested
\* strictly more; so with a leftover over 1% the final invested total is
\* the larger of the two totals.
C6_SelectionPolicy ==
    (pc = "main_481" /\ IsResult(opt)) =>
        LET G       == Result(GreedyFill(candidates, budget))
            under   == 100 * opt.remaining > budget
            replace == under /\ Invested(G) > Invested(opt)
        IN  /\ final \in {opt, G}
            /\ final = (IF replace THEN G ELSE opt)
            /\ under => Invested(final) = MaxOfTwo(Invested(G), Invested(opt))

\* The optimizer left between 1% and 10% of the budget and greedy, which
\* invested more, took its place.
C6_Witness ==
    /\ pc = "main_481"
    /\ IsResult(opt)
    /\ 100 * opt.remaining > budget
    /\ 10 * opt.remaining <= budget
    /\ final = g_res
    /\ final # opt
    /\ Invested(final) > Invested(opt)

SameDensity(x, y) == x.composite * y.min_invest = y.composite * x.min_invest

\* C7: without the optimizer the policy's result is exactly what
\* greedy_fill_full returns, also when compared with an earlier direct call
\* on the same candidates and budget; and greedy_fill_full visits the
\* candidates by descending density with equal densities in the order given.
C7_FallbackIsGreedy ==
    /\ GreedyRunning =>
          \A a, b \in 1..Len(g.candidates) : a < b =>
              /\ ~DensityGT(g.candidates[b], g.candidates[a])
              /\ SameDensity(g.candidates[a], g.candidates[b]) =>
                    g.candidates[a].ipo < g.candidates[b].ipo
    /\ (pc = "main_481" /\ opt = None) =>
          /\ final = g_res
          /\ IsResult(final)
          /\ g.pc = "done" => final = Result(g)

\* main ran without the optimizer after a direct greedy call on the same
\* input, a list with two candidates of equal density, and both got a line.
C7_Witness ==
    /\ pc = "main_481"
    /\ opt = None
    /\ g.pc = "done"
    /\ final = Result(g)
    /\ Len(final.allocation) >= 2
    /\ \E a, b \in 1..Len(candidates) :
          a # b /\ SameDensity(candidates[a], candidates[b])

\* One iteration of the seed loop: exactly one lot to the candidate at hand
\* if its min_invest is within what remains, nothing otherwise, and on to
\* the next candidate.
SeedStepAsSpecified ==
    (g.pc = "seed" /\ g' # g) =>
        LET c == g.candidates[g.i]
        IN  /\ IF c.min_invest <= g.remaining
               THEN /\ g'.allocation = Append(g.allocation,
                          [ipo |-> c.ipo, lots |-> 1,
                           min_invest |-> c.min_invest,
                           invested |-> c.min_invest,
                           composite |-> c.composite])
                    /\ g'.remaining = g.remaining - c.min_invest
               ELSE /\ g'.allocation = g.allocation
                    /\ g'.remaining = g.remaining
            /\ g'.pc = "seed" => g'.i = g.i + 1
            /\ g'.candidates = g.candidates

AllSeeded ==
    \A i \in 1..Len(candidates) :
        \E k \in 1..Len(g.allocation) :
            g.allocation[k].ipo = candidates[i].ipo /\ g.allocation[k].lots >= 1

SeedOrderAndCoverage ==
    /\ g.pc = "seed" =>
          /\ g.i \in 1..Len(g.candidates)
          /\ \A a, b \in 1..Len(g.candidates) :
                a < b => ~DensityGT(g.candidates[b], g.candidates[a])
          /\ \A i \in 1..Len(candidates) :
                \E a \in 1..Len(g.candidates) : g.candidates[a] = candidates[i]
          /\ Len(g.candidates) = Len(candidates)
    /\ (g.pc = "done" /\
        SumSeq([i \in 1..Len(candidates) |-> candidates[i].min_invest])
            <= budget) => AllSeeded
    /\ (g.pc = "done" /\ candidates = ScenarioTwo /\ budget = 25) =>
          /\ g.allocation =
                << [ipo |-> 1, lots |-> 1, min_invest |-> 15,
                    invested |-> 15, composite |-> 8],
                   [ipo |-> 2, lots |-> 1, min_invest |-> 10,
                    invested |-> 10, composite |-> 6] >>
          /\ g.remaining = 0

\* C8: the seed pass visits the candidates by descending density, starting
\* with the first, and gives exactly one lot to each whose min_invest is
\* within what remains at its turn; so when the min_invest of all candidates
\* sum to at most the budget each has a line of at least one lot in the
\* result; A{8, 15000}, B{6, 10000}, budget 25000 gives A: 1, B: 1, left 0.
C8_SeedCoverage == []SeedOrderAndCoverage /\ [][SeedStepAsSpecified]_vars

\* greedy_fill_full returned on the two-candidate scenario.
C8_Witness ==
    /\ g.pc = "done"
    /\ candidates = ScenarioTwo
    /\ budget = 25
    /\ AllSeeded

(***************************************************************************)
(* greedy_fill_full as a function of the budget: the same candidates are   *)
(* allocated again under a budget at least as large.                       *)
(***************************************************************************)
MonoInit ==
    /\ entry = "greedy_fill_full"
    /\ candidates \in CandLists(MaxCands, GreedyComposites) \ {<<>>}
    /\ budget \in Budgets
    /\ has_pulp = FALSE
    /\ pc = "idle"
    /\ g = NoFrame
    /\ opt = NotCalled
    /\ g_res = NotCalled
    /\ final = NotCalled
    /\ earlier = NotCalled
    /\ BuildIdle
    /\ ExplainIdle

\* greedy_fill_full(candidates, budget), lines 284-326, call to return.
MonoCall ==
    /\ pc = "idle"
    /\ g' = GreedyFill(candidates, budget)
    /\ pc' = "greedy"
    /\ UNCHANGED <<explainVars, buildVars, earlier, entry, candidates, budget, has_pulp, opt, g_res,
                   final>>

\* The call again, candidates held fixed, under a budget b2 >= budget.
MonoCallAgain ==
    /\ pc = "greedy" /\ g.pc = "done" /\ earlier = NotCalled
    /\ \E b2 \in budget..MaxBudget :
          /\ budget' = b2
          /\ g' = GreedyFill(candidates, b2)
    /\ earlier' = [kind |-> "result", budget |-> budget,
                   allocation |-> g.allocation, remaining |-> g.remaining]
    /\ UNCHANGED <<explainVars, buildVars, entry, candidates, has_pulp, pc, opt, g_res,
                   final>>

MonoNext == MonoCall \/ MonoCallAgain

SpecMono == MonoInit /\ [][MonoNext]_vars

\* C4: for a fixed non-empty candidate list and budgets b1 <= b2, the total
\* invested (budget - leftover) greedy_fill_full returns at b2 is at least
\* the total it returns at b1.
C4_MonotoneInBudget ==
    (IsResult(earlier) /\ g.pc = "done") =>
        /\ earlier.budget <= budget
        /\ earlier.budget - earlier.remaining <= budget - g.remaining

\* Two calls under different budgets, both leaving money over; the larger
\* budget bought more, with several lines and several lots in one of them.
C4_Witness ==
    /\ IsResult(earlier)
    /\ g.pc = "done"
    /\ earlier.budget < budget
    /\ earlier.budget - earlier.remaining < budget - g.remaining
    /\ earlier.remaining > 0
    /\ g.remaining > 0
    /\ \E k \in 1..Len(g.allocation) : g.allocation[k].lots >= 2
    /\ Len(g.allocation) >= 2

(***************************************************************************)
(* build_candidates (lines 243-281), one action per way an iteration of    *)
(* its loop ends.                                                          *)
(***************************************************************************)
\* An offering: its document and the analysis record under its name.
Offerings == IpoDocs \X Analyses

\* A plain eligible offering, an offering without analysis record, and an
\* eligible one whose minimum investment is in the market-lot text.
PlainDoc(ml) ==
    [close |-> 1, issue_price |-> [kind |-> "text", nums |-> <<100, 120>>],
     market_lot |-> ml, gmp |-> 0,
     quota    |-> [matched |-> FALSE, pct |-> 0],
     fund     |-> [present |-> FALSE, pos |-> FALSE, neg |-> FALSE,
                   roe_gt10 |-> FALSE, de_gt1 |-> FALSE, eps |-> "none"],
     overview |-> [present |-> FALSE, good |-> 0, bad |-> 0]]

ScoredTen ==
    [present |-> TRUE, status |-> "scored", has_score |-> TRUE, score |-> 10]

NoAnalysis ==
    [present |-> FALSE, status |-> "none", has_score |-> FALSE, score |-> 0]

FewOfferings ==
    { <<PlainDoc([kind |-> "absent", lot |-> 0, amount |-> 0]), ScoredTen>>,
      <<PlainDoc([kind |-> "absent", lot |-> 0, amount |-> 0]), NoAnalysis>>,
      <<PlainDoc([kind |-> "shares", lot |-> 10, amount |-> 1500]),
        ScoredTen>> }

\* The dicts handed to build_candidates: none, one, or two offerings, one of
\* the two any offering and the other one of the few.
OfferingLists ==
    {<<>>} \cup { <<o>> : o \in Offerings }
           \cup { <<o, f>> : o \in Offerings, f \in FewOfferings }
           \cup { <<f, o>> : o \in Offerings, f \in FewOfferings }

BuildInit ==
    /\ entry = "build_candidates"
    /\ candidates = <<>>
    /\ budget = 0
    /\ has_pulp = FALSE
    /\ pc = "idle"
    /\ g = NoFrame
    /\ opt = NotCalled
    /\ g_res = NotCalled
    /\ final = NotCalled
    /\ earlier = NotCalled
    /\ \E os \in OfferingLists :
          /\ ipos_by_name = [i \in 1..Len(os) |-> os[i][1]]
          /\ scored = [i \in 1..Len(os) |-> os[i][2]]
    /\ hold_date \in 1..MaxDate
    /\ cands = <<>>
    /\ b_pc = "loop"
    /\ b_i = 1
    /\ ExplainIdle

InLoop == b_pc = "loop" /\ b_i <= Len(ipos_by_name)

Skip ==
    /\ b_i' = b_i + 1
    /\ UNCHANGED <<explainVars, allocVars, ipos_by_name, scored, hold_date,
                   cands, b_pc>>

\* line 249: the analysis record is there and is scored or carries a score.
Usable(analysis) ==
    analysis.present /\ (analysis.status = "scored" \/ analysis.has_score)

\* lines 246-247
SkipNoAnalysis ==
    /\ InLoop
    /\ ~scored[b_i].present
    /\ Skip

\* lines 249-250
SkipUnscored ==
    /\ InLoop
    /\ scored[b_i].present
    /\ ~Usable(scored[b_i])
    /\ Skip

\* lines 251-255
SkipDate ==
    /\ InLoop
    /\ Usable(scored[b_i])
    /\ DateRejected(ipos_by_name[b_i].close, hold_date)
    /\ Skip

\* lines 257-259
SkipNoPrice ==
    /\ InLoop
    /\ Usable(scored[b_i])
    /\ ~DateRejected(ipos_by_name[b_i].close, hold_date)
    /\ ParseIssueMid(ipos_by_name[b_i].issue_price) = 0
    /\ Skip

\* The tests of lines 246-259 passed.
Priced ==
    /\ InLoop
    /\ Usable(scored[b_i])
    /\ ~DateRejected(ipos_by_name[b_i].close, hold_date)
    /\ ParseIssueMid(ipos_by_name[b_i].issue_price) # 0

\* lines 261-267
SkipLowComposite ==
    /\ Priced
    /\ ComputeComposite(ipos_by_name[b_i], scored[b_i]) < 5000
    /\ Skip

\* lines 261-280
AppendCandidate ==
    /\ Priced
    /\ ComputeComposite(ipos_by_name[b_i], scored[b_i]) >= 5000
    /\ cands' = Append(cands, Candidate(b_i, ipos_by_name[b_i], scored[b_i]))
    /\ b_i' = b_i + 1
    /\ UNCHANGED <<explainVars, allocVars, ipos_by_name, scored, hold_date,
                   b_pc>>

\* line 281
BuildReturn ==
    /\ b_pc = "loop" /\ b_i > Len(ipos_by_name)
    /\ b_pc' = "returned"
    /\ UNCHANGED <<explainVars, allocVars, ipos_by_name, scored, hold_date,
                   cands, b_i>>

BuildNext ==
    \/ SkipNoAnalysis
    \/ SkipUnscored
    \/ SkipDate
    \/ SkipNoPrice
    \/ SkipLowComposite
    \/ AppendCandidate
    \/ BuildReturn

SpecBuild == BuildInit /\ [][BuildNext]_vars

\* C9: every Candidate build_candidates holds or returns has
\* 1 <= composite <= 10 (1000..10000 thousandths) and min_invest > 0.
C9_CandidateInvariant ==
    \A k \in 1..Len(cands) :
        /\ 1000 <= cands[k].composite
        /\ cands[k].composite <= 10000
        /\ cands[k].min_invest > 0

\* build_candidates returned two candidates: one capped at composite 10
\* with min_invest = lot x issue_mid, one with the default minimum.
C9_Witness ==
    /\ b_pc = "returned"
    /\ Len(cands) = 2
    /\ \E k \in 1..2 :
          /\ cands[k].composite = 10000
          /\ cands[k].lot # 0
          /\ cands[k].min_invest = cands[k].lot * cands[k].issue_mid
    /\ \E k \in 1..2 :
          /\ cands[k].lot = 0
          /\ cands[k].min_invest = MIN_INVEST_MAINBOARD

\* The document gives a price: some number of the field is not 0.
PriceGiven(ip) == \E n \in 1..Len(ip.nums) : ip.nums[n] # 0

\* C10: a Candidate is never built for an offering without analysis record,
\* without a close date or closing after hold_date, without a resolvable
\* issue mid-price, or with a composite below 5; and there is at most one
\* Candidate per offering name.
C10_EligibilityFiltering ==
    /\ \A k \in 1..Len(cands) :
          LET name == cands[k].ipo
          IN  /\ name \in 1..Len(ipos_by_name)
              /\ scored[name].present
              /\ ipos_by_name[name].close # 0
              /\ ipos_by_name[name].close <= hold_date
              /\ PriceGiven(ipos_by_name[name].issue_price)
              /\ cands[k].issue_mid > 0
              /\ cands[k].composite >= 5000
              /\ cands[k].composite =
                    ComputeComposite(ipos_by_name[name], scored[name])
    /\ \A k, l \in 1..Len(cands) : cands[k].ipo = cands[l].ipo => k = l

\* build_candidates returned one of two offerings; the other, though its
\* analysis score is 10, has no resolvable price.
C10_Witness ==
    /\ b_pc = "returned"
    /\ Len(ipos_by_name) = 2
    /\ Len(cands) = 1
    /\ \E n \in 1..2 :
          /\ n # cands[1].ipo
          /\ scored[n].has_score /\ scored[n].score = 10
          /\ ipos_by_name[n].close # 0 /\ ipos_by_name[n].close <= hold_date
          /\ ~PriceGiven(ipos_by_name[n].issue_price)

(***************************************************************************)
(* greedy_fill_full as a function of the order of its candidates: the same *)
(* candidates are allocated again, in another order, under the same        *)
(* budget.                                                                 *)
(***************************************************************************)
\* Longest candidate list that is permuted.
MaxPermCands == TOP_FILL_K

\* The orders of n positions.
Orders(n) ==
    { p \in [1..n -> 1..n] : \A i, j \in 1..n : p[i] = p[j] => i = j }

\* The candidates of cs, each with its identifier, in the order p.
Permuted(cs, p) == [k \in 1..Len(cs) |-> cs[p[k]]]

PermInputs ==
    (CandLists(MaxPermCands, Composites) \ {<<>>}) \X Budgets
        \cup {<<ScenarioTwo, 25>>, <<ScenarioDrain, 13>>}

PermInit ==
    /\ entry = "greedy_fill_full"
    /\ \E in \in PermInputs :
          /\ candidates = in[1]
          /\ budget = in[2]
    /\ has_pulp = FALSE
    /\ pc = "idle"
    /\ g = NoFrame
    /\ opt = NotCalled
    /\ g_res = NotCalled
    /\ final = NotCalled
    /\ earlier = NotCalled
    /\ BuildIdle
    /\ ExplainIdle

\* greedy_fill_full(candidates, budget), lines 284-326, call to return.
PermCall ==
    /\ pc = "idle"
    /\ g' = GreedyFill(candidates, budget)
    /\ pc' = "greedy"
    /\ UNCHANGED <<explainVars, buildVars, earlier, entry, candidates, budget, has_pulp, opt, g_res,
                   final>>

\* The call again, budget held fixed, on the candidates in another order.
PermCallAgain ==
    /\ pc = "greedy" /\ g.pc = "done" /\ earlier = NotCalled
    /\ \E p \in Orders(Len(candidates)) :
          /\ candidates' = Permuted(candidates, p)
          /\ g' = GreedyFill(Permuted(candidates, p), budget)
    /\ earlier' = [kind |-> "result", budget |-> budget,
                   allocation |-> g.allocation, remaining |-> g.remaining]
    /\ UNCHANGED <<explainVars, buildVars, entry, budget, has_pulp, pc, opt,
                   g_res, final>>

PermNext == PermCall \/ PermCallAgain

SpecPerm == PermInit /\ [][PermNext]_vars

\* Lots an allocation gives the offering ipo, 0 without a line.
LotsOf(alloc, ipo) ==
    IF \E k \in 1..Len(alloc) : alloc[k].ipo = ipo
    THEN alloc[CHOOSE k \in 1..Len(alloc) : alloc[k].ipo = ipo].lots
    ELSE 0

\* The two calls returned the same lots per candidate and the same leftover.
SameLotsAndLeftover ==
    /\ earlier.remaining = g.remaining
    /\ \A k \in 1..Len(candidates) :
          LotsOf(earlier.allocation, candidates[k].ipo)
              = LotsOf(g.allocation, candidates[k].ipo)

\* Both calls have returned.
BothReturned == IsResult(earlier) /\ g.pc = "done"

\* C11, as stated: greedy_fill_full on any permutation of the same
\* candidates, under the same budget, returns the same lots per candidate
\* and the same leftover, also when candidates tie on density.
C11_OrderIrrelevant == BothReturned => SameLotsAndLeftover

\* No two candidates have the same density composite / min_invest.
DistinctDensities ==
    \A i, j \in 1..Len(candidates) :
        i # j => (DensityGT(candidates[i], candidates[j])
                    \/ DensityGT(candidates[j], candidates[i]))

\* C11, amended: when the densities of the candidates are pairwise
\* distinct, greedy_fill_full on any permutation of the same candidates,
\* under the same budget, returns the same lots per candidate and the same
\* leftover.
C11_OrderIrrelevantDistinctDensities ==
    (BothReturned /\ DistinctDensities) => SameLotsAndLeftover

\* Three candidates of distinct densities, two of them of equal composite,
\* were allocated in two different orders, with more than one line bought.
C11_Witness ==
    /\ BothReturned
    /\ DistinctDensities
    /\ Len(candidates) = 3
    /\ candidates[1].ipo # 1
    /\ \E i, j \in 1..3 :
          i # j /\ candidates[i].composite = candidates[j].composite
    /\ Len(g.allocation) >= 2
    /\ \E k \in 1..Len(g.allocation) : g.allocation[k].lots >= 2

(***************************************************************************)
(* explain_allocation (lines 372-393).  A reason is modelled by its        *)
(* template; a category is the sequence of its characters.                 *)
(***************************************************************************)
\* Most candidates handed to explain_allocation.
MaxExplained == 2

\* category: ipo.get("category", "Mainboard") of line 271.
Categories ==
    { <<"M", "a", "i", "n", "b", "o", "a", "r", "d">>,
      <<"S", "M", "E">>,
      <<"B", "S", "E", " ", "S", "m", "e">>,
      <<"S", "m", "a", "l", "l">> }

\* breakdown (lines 220-228): retail quota in percent, fundamentals in
\* thousandths of a point, GMP strength in thousandths of a percent.
Breakdowns ==
    [retail_quota_pct : {0, 10, 29, 30, 35},
     fund_score       : {1000, 5000, 5500, 6000, 9500},
     gmp_strength_pct : {-54545, 0, 10000, 10001, 600000}]

\* A candidate as explain_allocation reads it.
Explained(name, cat, br) ==
    [ipo |-> name, category |-> cat, composite |-> 5, min_invest |-> 1,
     breakdown |-> br]

\* One of two fixed candidates: an SME offering with every positive
\* reason, or a mainboard offering with none.
FewExplained(name, strong) ==
    IF strong
    THEN Explained(name, <<"S", "M", "E">>,
                   [retail_quota_pct |-> 35, fund_score |-> 9500,
                    gmp_strength_pct |-> 600000])
    ELSE Explained(name, <<"M", "a", "i", "n", "b", "o", "a", "r", "d">>,
                   [retail_quota_pct |-> 10, fund_score |-> 5000,
                    gmp_strength_pct |-> 0])

\* The candidates of a run: the first any candidate, the others of the few.
ExplainedLists ==
    UNION { { [k \in 1..n |-> IF k = 1 THEN Explained(1, cat, br)
                                       ELSE FewExplained(k, w[k])] :
                cat \in Categories, br \in Breakdowns,
                w \in [2..n -> BOOLEAN] } :
            n \in 1..MaxExplained }

\* The allocations over n candidates: lines of distinct candidates, in any
\* order.
LineOrders(n) ==
    UNION { { a \in [1..m -> 1..n] : \A i, j \in 1..m : a[i] = a[j] => i = j } :
            m \in 0..n }

\* str.lower() on the characters of Categories.
LowerChar(ch) ==
    CASE ch = "S" -> "s"
      [] ch = "M" -> "m"
      [] ch = "E" -> "e"
      [] ch = "B" -> "b"
      [] OTHER -> ch

Lower(str) == [k \in 1..Len(str) |-> LowerChar(str[k])]

\* sub in str
In(sub, str) ==
    \E k \in 1..(Len(str) - Len(sub) + 1) :
        SubSeq(str, k, k + Len(sub) - 1) = sub

\* A retail test that leaves out the quota of exactly 30 percent.
RetailQuotaHighStrict(br) == br.retail_quota_pct > 30

\* line 381
RetailQuotaHigh(br) == br.retail_quota_pct >= 30

\* line 379
GmpStrong(br) == br.gmp_strength_pct > 10000

\* line 385
FundamentalsPositive(br) == br.fund_score >= 6000

\* line 389
IsSme(c) == In(<<"s", "m", "e">>, Lower(c.category))

\* lines 376-386: reasons_more
ReasonsMore(c) ==
    <<"composite">>
        \o (IF GmpStrong(c.breakdown) THEN <<"gmp_high">> ELSE <<>>)
        \o (IF RetailQuotaHigh(c.breakdown) THEN <<"retail_high">> ELSE <<>>)
        \o (IF FundamentalsPositive(c.breakdown) THEN <<"fund_positive">>
                                                 ELSE <<>>)

\* lines 377-390: reasons_less
ReasonsLess(c) ==
    (IF RetailQuotaHigh(c.breakdown) THEN <<>> ELSE <<"retail_low">>)
        \o (IF FundamentalsPositive(c.breakdown) THEN <<>> ELSE <<"fund_weak">>)
        \o (IF IsSme(c) THEN <<"sme">> ELSE <<>>)

\* lines 375-392: the entry of one allocation line
Entry(c) ==
    [reasons_more |-> ReasonsMore(c), reasons_less |-> ReasonsLess(c),
     breakdown |-> c.breakdown]

ExplainInit ==
    /\ entry = "explain_allocation"
    /\ candidates = <<>>
    /\ budget = 0
    /\ has_pulp = FALSE
    /\ pc = "idle"
    /\ g = NoFrame
    /\ opt = NotCalled
    /\ g_res = NotCalled
    /\ final = NotCalled
    /\ earlier = NotCalled
    /\ BuildIdle
    /\ candidates_dict \in ExplainedLists
    /\ \E a \in LineOrders(Len(candidates_dict)) :
          allocation = [k \in 1..Len(a) |-> Line(candidates_dict[a[k]])]
    /\ explain = <<>>
    /\ e_pc = "loop"
    /\ e_i = 1

\* lines 374-392: one iteration of the loop
ExplainLine ==
    /\ e_pc = "loop" /\ e_i <= Len(allocation)
    /\ LET ipo == allocation[e_i].ipo
           c   == candidates_dict[ipo]
       IN  explain' = [n \in DOMAIN explain \cup {ipo} |->
                          IF n = ipo THEN Entry(c) ELSE explain[n]]
    /\ e_i' = e_i + 1
    /\ UNCHANGED <<allocVars, buildVars, allocation, candidates_dict, e_pc>>

\* line 393
ExplainReturn ==
    /\ e_pc = "loop" /\ e_i > Len(allocation)
    /\ e_pc' = "returned"
    /\ UNCHANGED <<allocVars, buildVars, allocation, candidates_dict, explain,
                   e_i>>

ExplainNext == ExplainLine \/ ExplainReturn

SpecExplain == ExplainInit /\ [][ExplainNext]_vars

\* How often the reason r is in the list rs.
Count(rs, r) == Cardinality({ k \in 1..Len(rs) : rs[k] = r })

\* The category holds "sme" in some casing, at some position.
HoldsSme(cat) ==
    \E k \in 1..(Len(cat) - 2) :
        /\ cat[k] \in {"s", "S"}
        /\ cat[k + 1] \in {"m", "M"}
        /\ cat[k + 2] \in {"e", "E"}

\* The entry e follows the rules for the candidate c.
EntryAsSpecified(e, c) ==
    LET br   == c.breakdown
        more == e.reasons_more
        less == e.reasons_less
    IN  /\ Count(more, "composite") = 1 /\ more[1] = "composite"
        /\ Count(less, "composite") = 0
        /\ Count(more, "retail_high") + Count(less, "retail_low") = 1
        /\ Count(more, "retail_low") + Count(less, "retail_high") = 0
        /\ Count(more, "retail_high") = 1 <=> br.retail_quota_pct >= 30
        /\ Count(more, "fund_positive") + Count(less, "fund_weak") = 1
        /\ Count(more, "fund_weak") + Count(less, "fund_positive") = 0
        /\ Count(more, "fund_positive") = 1 <=> br.fund_score >= 6000
        /\ Count(more, "gmp_high") = (IF br.gmp_strength_pct > 10000 THEN 1
                                                                      ELSE 0)
        /\ Count(less, "gmp_high") = 0
        /\ Count(less, "sme") = (IF HoldsSme(c.category) THEN 1 ELSE 0)
        /\ Count(more, "sme") = 0

\* C12: explain_allocation has an entry for exactly the offerings of the
\* allocation lines it went through (on return: of all lines, and of no
\* candidate without a line); each entry has the summary as a positive
\* reason, exactly one retail-quota reason (positive iff retail_quota_pct
\* >= 30), exactly one fundamentals reason (positive iff fund_score >= 6), a
\* positive GMP reason iff gmp_strength_pct > 10, and a negative risk reason
\* iff the category holds "sme" in any casing.
C12_ExplanationRules ==
    /\ DOMAIN explain = { allocation[k].ipo : k \in 1..(e_i - 1) }
    /\ e_pc = "returned" =>
          DOMAIN explain = { allocation[k].ipo : k \in 1..Len(allocation) }
    /\ \A n \in DOMAIN explain :
          EntryAsSpecified(explain[n], candidates_dict[n])

\* explain_allocation returned: one of two candidates has no line and no
\* entry; the other, with a retail quota of exactly 30 percent and a
\* category of "BSE Sme", has its entry with the SME reason.
C12_Witness ==
    /\ e_pc = "returned"
    /\ Len(candidates_dict) = 2
    /\ DOMAIN explain = {1}
    /\ candidates_dict[1].breakdown.retail_quota_pct = 30
    /\ candidates_dict[1].breakdown.gmp_strength_pct = 10000
    /\ candidates_dict[1].category = <<"B", "S", "E", " ", "S", "m", "e">>
    /\ Count(explain[1].reasons_less, "sme") = 1
    /\ Count(explain[1].reasons_more, "retail_high") = 1

(***************************************************************************)
(* greedy_fill_full from call to return: a call, once made, runs on (the   *)
(* code is sequential), so its steps are taken as long as one is enabled.  *)
(***************************************************************************)
TermInit ==
    /\ Init
    /\ entry = "greedy_fill_full"
    /\ candidates # <<>>

TermNext ==
    \/ CallGreedy
    \/ SeedStep
    \/ TopKSweep
    \/ TopKExit
    \/ TopKStep
    \/ DrainStep
    \/ GreedyDone

SpecTerm == TermInit /\ [][TermNext]_vars /\ WF_vars(TermNext)

\* The passes in their order.
PassRank(p) ==
    CASE p = "seed" -> 1
      [] p \in {"topk_while", "topk_for"} -> 2
      [] p = "drain" -> 3
      [] p = "done" -> 4
      [] OTHER -> 0

\* A step of a running call: the pass never goes back, remaining never
\* grows; a sweep over top_k is entered only with the flag up, and the flag
\* goes up only in a step that lowers remaining; an iteration of the drain
\* loop lowers remaining.
StepAsSpecified ==
    (pc = "greedy" /\ g.pc \notin {"done", "raised"}) =>
        /\ PassRank(g'.pc) >= PassRank(g.pc)
        /\ g'.remaining <= g.remaining
        /\ (g.pc = "topk_while" /\ g'.pc = "topk_for") => g.added
        /\ (g.pc = "topk_for" /\ ~g.added /\ g'.added) =>
              g'.remaining < g.remaining
        /\ (g.pc = "drain" /\ g'.pc = "drain") => g'.remaining < g.remaining

\* On return no candidate is affordable.
MaximalFillOnReturn ==
    g.pc = "done" =>
        \A k \in 1..Len(candidates) : g.remaining < candidates[k].min_invest

\* C13: for every non-empty candidate list (min_invest > 0) and every
\* budget >= 0, greedy_fill_full returns; it goes through the passes in the
\* order seed, top-K repeat, drain; an iteration of the top-K loop that is
\* followed by another, and every iteration of the drain loop, lowers
\* remaining; and on return remaining is below every candidate's
\* min_invest.
C13_TerminationAndMaximalFill ==
    /\ []MaximalFillOnReturn
    /\ [][StepAsSpecified]_vars
    /\ <>(g.pc = "done")

\* A call returned after its drain pass bought a lot: a candidate outside
\* top_k holds two lots.
C13_Witness ==
    /\ g.pc = "done"
    /\ Len(g.candidates) > TOP_FILL_K
    /\ \E k \in (TOP_FILL_K + 1)..Len(g.candidates) :
          LotsOf(g.allocation, g.candidates[k].ipo) >= 2
    /\ \A k \in 1..Len(candidates) : g.remaining < candidates[k].min_invest

=============================================================================
